---- MODULE Spec2Model ----
(***************************************************************************)
(* Attribution engine (coincompass/analysis/price_driver.py) and the       *)
(* walk-forward validator (coincompass/analysis/backtesting.py).           *)
(*                                                                         *)
(* Numbers.  Python floats are modelled by exact rationals:                *)
(*   - a percent change is a record [n, d] with d > 0, value n/d percent;  *)
(*   - an impact score is an integer in units of 1/IU (IU = impact 1.0);   *)
(*   - a factor confidence is an integer in units of 1/CU (CU = 1.0);      *)
(*   - an aggregated confidence / accuracy rate is a record [n, d].        *)
(* Floating point rounding is not modelled.                                *)
(***************************************************************************)
EXTENDS Integers, Sequences, FiniteSets, TLC

VARIABLES
    \* PriceDriverValidator.validate_price_predictions
    crypto_data,            \* the Close column (a sequence of prices), or NoData
    i,                      \* loop index of "for i in range(24, len(crypto_data))"
    phase,                  \* "init" | "loop" | "done" | "raised" | "idle"
    validation_results,
    correct_predictions,
    movement_type_stats,
    factor_stats,
    step_log,               \* what each attempted step read and how it ended
    report,
    \* one call of PriceDriverAnalyzer.analyze_price_movement
    call,
    analysis,
    \* one call of a pure helper
    arg,
    ret

vars == << crypto_data, i, phase, validation_results, correct_predictions,
           movement_type_stats, factor_stats, step_log, report,
           call, analysis, arg, ret >>

replayVars == << crypto_data, i, phase, validation_results, correct_predictions,
                 movement_type_stats, factor_stats, step_log, report >>

Idle == "idle"
NoData == [available |-> FALSE]
NoReport == [built |-> FALSE]
NoCall == [fn |-> "none"]
NoAnalysis == [status |-> "none"]
NoArg == [fn |-> "none"]
NoRet == [done |-> FALSE]
Returned(v) == [done |-> TRUE, value |-> v]

----------------------------------------------------------------------------
(* Units and rational helpers *)

IU == 120
CU == 60

Abs(x) == IF x < 0 THEN -x ELSE x

\* a / b as an exact rational with positive denominator (b # 0)
Rat(a, b) == IF b < 0 THEN [n |-> -a, d |-> -b] ELSE [n |-> a, d |-> b]

RatLe(q, k) == q.n <= k * q.d
RatLt(q, k) == q.n < k * q.d
RatGe(q, k) == q.n >= k * q.d
RatGt(q, k) == q.n > k * q.d
RatAbs(q) == [n |-> Abs(q.n), d |-> q.d]
RatEq(p, q) == p.n * q.d = q.n * p.d

----------------------------------------------------------------------------
(* Movement classification *)

MovementTypes == {"crash", "dump", "normal_down", "stable", "normal_up", "pump", "surge"}

movement_thresholds_NormalAtTwo ==
    [crash |-> -15, dump |-> -8, normal_down |-> -2,
     normal_up |-> 2, pump |-> 8, surge |-> 15]

movement_thresholds ==
    [crash |-> -15, dump |-> -8, normal_down |-> -3,
     normal_up |-> 3, pump |-> 8, surge |-> 15]

Analyzer_classify_movement_CrashStrict(price_change) ==
    IF RatLt(price_change, movement_thresholds.crash) THEN "crash"
    ELSE IF RatLe(price_change, movement_thresholds.dump) THEN "dump"
    ELSE IF RatLe(price_change, movement_thresholds.normal_down) THEN "normal_down"
    ELSE IF RatGe(price_change, movement_thresholds.surge) THEN "surge"
    ELSE IF RatGe(price_change, movement_thresholds.pump) THEN "pump"
    ELSE IF RatGe(price_change, movement_thresholds.normal_up) THEN "normal_up"
    ELSE "stable"

Analyzer_classify_movement(price_change) ==
    IF RatLe(price_change, movement_thresholds.crash) THEN "crash"
    ELSE IF RatLe(price_change, movement_thresholds.dump) THEN "dump"
    ELSE IF RatLe(price_change, movement_thresholds.normal_down) THEN "normal_down"
    ELSE IF RatGe(price_change, movement_thresholds.surge) THEN "surge"
    ELSE IF RatGe(price_change, movement_thresholds.pump) THEN "pump"
    ELSE IF RatGe(price_change, movement_thresholds.normal_up) THEN "normal_up"
    ELSE "stable"

Validator_classify_movement_CrashStrict(change_percent) ==
    IF RatLt(change_percent, -15) THEN "crash"
    ELSE IF RatLe(change_percent, -8) THEN "dump"
    ELSE IF RatLe(change_percent, -3) THEN "normal_down"
    ELSE IF RatGe(change_percent, 15) THEN "surge"
    ELSE IF RatGe(change_percent, 8) THEN "pump"
    ELSE IF RatGe(change_percent, 3) THEN "normal_up"
    ELSE "stable"

Validator_classify_movement(change_percent) ==
    IF RatLe(change_percent, -15) THEN "crash"
    ELSE IF RatLe(change_percent, -8) THEN "dump"
    ELSE IF RatLe(change_percent, -3) THEN "normal_down"
    ELSE IF RatGe(change_percent, 15) THEN "surge"
    ELSE IF RatGe(change_percent, 8) THEN "pump"
    ELSE IF RatGe(change_percent, 3) THEN "normal_up"
    ELSE "stable"

----------------------------------------------------------------------------
(* Accuracy evaluation *)

Direction(change) ==
    IF RatGt(change, 0) THEN "up" ELSE IF RatLt(change, 0) THEN "down" ELSE "stable"

\* |a - b| <= k for rationals a, b and an integer k
RatDiffLe(a, b, k) == Abs(a.n * b.d - b.n * a.d) <= k * a.d * b.d

evaluate_prediction_accuracy_NoDirection(actual_change, actual_movement, predicted_change, predicted_movement) ==
    LET intensity_correct == actual_movement = predicted_movement
        error_acceptable == RatDiffLe(actual_change, predicted_change, 2)
    IN  intensity_correct \/ error_acceptable

evaluate_prediction_accuracy(actual_change, actual_movement, predicted_change, predicted_movement) ==
    LET actual_direction == Direction(actual_change)
        predicted_direction == Direction(predicted_change)
        direction_correct == actual_direction = predicted_direction
        intensity_correct == actual_movement = predicted_movement
        error_acceptable == RatDiffLe(actual_change, predicted_change, 2)
    IN  direction_correct /\ (intensity_correct \/ error_acceptable)

----------------------------------------------------------------------------
(* Optional values and factors *)

Nothing == << >>
Some(v) == << v >>
IsSome(o) == Len(o) = 1
Get(o) == o[1]

\* Python truthiness of an Optional[float]: None and 0.0 are falsy
Truthy(o) == IsSome(o) /\ Get(o) # 0
\* the same for a value kept as a fraction
TruthyRat(o) == IsSome(o) /\ Get(o).n # 0

----------------------------------------------------------------------------
(* TechnicalAnalyzer *)

\* all indicators None
EmptyIndicators ==
    [rsi |-> Nothing, macd |-> Nothing, macd_signal |-> Nothing,
     sma_short_above |-> Nothing, bollinger |-> Nothing]

\* price_data is [given, len, rsi, macd, macd_signal, crossed, sma_short_above,
\* bollinger]: the length of the window and what the RSI / EMA / SMA / band
\* computations yield on it (their arithmetic is not modelled).
analyze_price_data(price_data) ==
    IF price_data.len < 26 THEN EmptyIndicators
    ELSE [rsi |-> price_data.rsi,
          macd |-> Some(price_data.macd),
          macd_signal |-> Some(price_data.macd_signal),
          sma_short_above |-> Some(price_data.sma_short_above),
          bollinger |-> Some(price_data.bollinger)]

SumSeq(s) == IF Len(s) = 0 THEN 0
             ELSE IF Len(s) = 1 THEN s[1]
             ELSE IF Len(s) = 2 THEN s[1] + s[2]
             ELSE IF Len(s) = 3 THEN s[1] + s[2] + s[3]
             ELSE s[1] + s[2] + s[3] + s[4]

generate_trading_signal(price_data, indicators) ==
    IF price_data.len = 0
    THEN [signal |-> "HOLD", confidence |-> 0, numpy |-> FALSE]
    ELSE
    LET rsi_sig ==
            IF IsSome(indicators.rsi)
            THEN IF RatLt(Get(indicators.rsi), 30) THEN << <<"BUY", 48>> >>
                 ELSE IF RatGt(Get(indicators.rsi), 70) THEN << <<"SELL", 48>> >>
                 ELSE << >>
            ELSE << >>
        macd_sig ==
            IF IsSome(indicators.macd) /\ IsSome(indicators.macd_signal)
            THEN IF Get(indicators.macd) > Get(indicators.macd_signal)
                 THEN IF price_data.crossed THEN << <<"BUY", 42>> >> ELSE << >>
                 ELSE IF price_data.crossed THEN << <<"SELL", 42>> >> ELSE << >>
            ELSE << >>
        sma_sig ==
            IF IsSome(indicators.sma_short_above)
            THEN IF Get(indicators.sma_short_above)
                 THEN << <<"BUY", 36>> >> ELSE << <<"SELL", 36>> >>
            ELSE << >>
        boll_sig ==
            IF IsSome(indicators.bollinger)
            THEN IF Get(indicators.bollinger) = "above" THEN << <<"SELL", 30>> >>
                 ELSE IF Get(indicators.bollinger) = "below" THEN << <<"BUY", 30>> >>
                 ELSE << >>
            ELSE << >>
        signals == rsi_sig \o macd_sig \o sma_sig \o boll_sig
        buys == SelectSeq(signals, LAMBDA x : x[1] = "BUY")
        sells == SelectSeq(signals, LAMBDA x : x[1] = "SELL")
        Mean(sel) == SumSeq([k \in 1..Len(sel) |-> sel[k][2]]) \div Len(sel)
    IN  IF Len(signals) = 0
        THEN [signal |-> "HOLD", confidence |-> 30, numpy |-> FALSE]
        ELSE IF Len(buys) > Len(sells)
        THEN [signal |-> "BUY", confidence |-> Mean(buys), numpy |-> TRUE]
        ELSE IF Len(sells) > Len(buys)
        THEN [signal |-> "SELL", confidence |-> Mean(sells), numpy |-> TRUE]
        ELSE [signal |-> "HOLD", confidence |-> 30, numpy |-> FALSE]

----------------------------------------------------------------------------
(* The four factor analyzers of PriceDriverAnalyzer.  Each returns Nothing
   (None) or Some(factor). *)

technical_reason_formats_None(indicators) == TRUE

\* f"RSI: {indicators.rsi:.1f}, ..." can be built: ":.1f" rejects None
technical_reason_formats(indicators) == IsSome(indicators.rsi)

analyze_technical_factors(price_data, price_change) ==
    IF ~price_data.given \/ price_data.len < 5 THEN Nothing
    ELSE IF price_data.raises THEN Nothing
    ELSE
    LET indicators == analyze_price_data(price_data)
        signal == generate_trading_signal(price_data, indicators)
        rsi_impact ==
            IF TruthyRat(indicators.rsi)
            THEN IF RatGt(Get(indicators.rsi), 70) THEN -72
                 ELSE IF RatLt(Get(indicators.rsi), 30) THEN 72
                 ELSE IF RatGt(Get(indicators.rsi), 50) THEN 36
                 ELSE -36
            ELSE 0
        macd_impact ==
            IF Truthy(indicators.macd) /\ Truthy(indicators.macd_signal)
            THEN LET macd_diff == Get(indicators.macd) - Get(indicators.macd_signal)
                 IN  IF macd_diff > 0 /\ RatGt(price_change, 0) THEN 48
                     ELSE IF macd_diff < 0 /\ RatLt(price_change, 0) THEN -48
                     ELSE 0
            ELSE 0
        total_impact == (rsi_impact + macd_impact) \div 2
        final_desc == IF rsi_impact # 0 THEN <<"rsi", rsi_impact>>
                      ELSE IF macd_impact # 0 THEN <<"macd", macd_impact>>
                      ELSE <<"technical">>
    IN  \* formatting indicators.rsi with ":.1f" raises TypeError on None,
        \* which the enclosing try/except turns into "no factor"
        IF ~technical_reason_formats(indicators) THEN Nothing
        ELSE Some([factor_type |-> "technical",
                   impact_score |-> total_impact,
                   confidence |-> IF signal.confidence # 0 THEN signal.confidence ELSE 30,
                   description |-> final_desc,
                   numpy |-> signal.confidence # 0 /\ signal.numpy])

analyze_sentiment_factors(sentiment, price_change) ==
    IF sentiment.raises THEN Nothing
    ELSE
    LET fg == sentiment.fear_greed_index
        fg_index == Get(fg)
        up == RatGt(price_change, 0)
        down == RatLt(price_change, 0)
        scored ==
            IF Truthy(fg)
            THEN IF fg_index > 75
                 THEN [impact |-> IF up THEN 84 ELSE -96, conf |-> 48,
                       desc |-> IF up THEN "fomo" ELSE "greed_profit_taking"]
                 ELSE IF fg_index < 25
                 THEN [impact |-> IF down THEN -84 ELSE 96, conf |-> 48,
                       desc |-> IF down THEN "panic" ELSE "fear_dip_buying"]
                 ELSE IF fg_index > 60
                 THEN [impact |-> IF up THEN 48 ELSE -36, conf |-> 36, desc |-> "greed"]
                 ELSE IF fg_index < 40
                 THEN [impact |-> IF down THEN -48 ELSE 36, conf |-> 36, desc |-> "fear"]
                 ELSE [impact |-> 0, conf |-> 30, desc |-> ""]
            ELSE [impact |-> 0, conf |-> 30, desc |-> ""]
        social == IF Truthy(sentiment.social_sentiment)
                  THEN IF Get(sentiment.social_sentiment) > 2 THEN "social_positive"
                       ELSE IF Get(sentiment.social_sentiment) < -2 THEN "social_negative"
                       ELSE ""
                  ELSE ""
    IN  IF Abs(scored.impact) > 12
        THEN Some([factor_type |-> "sentiment",
                   impact_score |-> scored.impact,
                   confidence |-> scored.conf,
                   description |-> <<scored.desc, social>>,
                   numpy |-> FALSE])
        ELSE Nothing

\* change_1d of a market index is an integer number of ChangePct percent
ChangePct == 5

calculate_crypto_correlation_signals(market_data) ==
    LET names == DOMAIN market_data
        tech == IF "NASDAQ" \in names
                THEN IF market_data["NASDAQ"] * ChangePct > 2 THEN {<<"tech_stock_momentum", 84>>}
                     ELSE IF market_data["NASDAQ"] * ChangePct < -2 THEN {<<"tech_stock_momentum", -84>>}
                     ELSE {<<"tech_stock_momentum", 0>>}
                ELSE {}
        \* -change / 100, in impact units
        dollar == IF "DXY" \in names
                  THEN {<<"dollar_inverse_correlation", -((market_data["DXY"] * ChangePct * IU) \div 100)>>}
                  ELSE {}
        risk == IF "VIX" \in names
                THEN {<<"risk_sentiment", -((market_data["VIX"] * ChangePct * IU) \div 100)>>}
                ELSE {}
        gold == IF "GOLD" \in names
                THEN {<<"alternative_asset_flow", (market_data["GOLD"] * ChangePct * IU) \div 100>>}
                ELSE {}
        pairs == tech \cup dollar \cup risk \cup gold
    IN  [k \in { p[1] : p \in pairs } |-> (CHOOSE p \in pairs : p[1] = k)[2]]

RECURSIVE SumOver(_, _)
SumOver(f, keys) ==
    IF keys = {} THEN 0
    ELSE LET k == CHOOSE x \in keys : TRUE IN f[k] + SumOver(f, keys \ {k})

ClampImpact_Unclamped(x) == x

\* max(-1.0, min(1.0, impact_score))
ClampImpact(x) == IF x > IU THEN IU ELSE IF x < -IU THEN -IU ELSE x

analyze_macro_factors(macro, price_change) ==
    IF macro.raises THEN Nothing
    ELSE
    LET signals == calculate_crypto_correlation_signals(macro.market_indices)
        names == DOMAIN signals
    IN  IF names = {} THEN Nothing
        ELSE
        LET \* total_signal * 2
            impact_score == (2 * SumOver(signals, names)) \div Cardinality(names)
            counted == { k \in names \cap {"tech_stock_momentum",
                                           "dollar_inverse_correlation",
                                           "risk_sentiment"} : Abs(signals[k]) > 36 }
            confidence == 30 + 12 * Cardinality(counted)
            first == IF "tech_stock_momentum" \in counted THEN "tech_stock_momentum"
                     ELSE IF "dollar_inverse_correlation" \in counted
                     THEN "dollar_inverse_correlation" ELSE "risk_sentiment"
            final_desc == IF counted # {}
                          THEN <<first, signals[first] > 0, Cardinality(counted) > 1>>
                          ELSE <<"macro_environment", impact_score > 0, FALSE>>
        IN  IF Abs(impact_score) > 12
            THEN Some([factor_type |-> "macro",
                       impact_score |-> ClampImpact(impact_score),
                       confidence |-> IF confidence > CU THEN CU ELSE confidence,
                       description |-> final_desc,
                       numpy |-> FALSE])
            ELSE Nothing

analyze_structural_factors_AtTwo(price_change, movement_type) ==
    IF movement_type \in {"crash", "dump"}
    THEN Some([factor_type |-> "structural", impact_score |-> -72, confidence |-> 42,
               description |-> <<"forced_selling">>, numpy |-> FALSE])
    ELSE IF movement_type \in {"surge", "pump"}
    THEN Some([factor_type |-> "structural", impact_score |-> 72, confidence |-> 42,
               description |-> <<"heavy_buying">>, numpy |-> FALSE])
    ELSE IF RatGe(RatAbs(price_change), 2)
    THEN IF RatGt(price_change, 0)
         THEN Some([factor_type |-> "structural", impact_score |-> 36, confidence |-> 24,
                    description |-> <<"buy_orders">>, numpy |-> FALSE])
         ELSE Some([factor_type |-> "structural", impact_score |-> -36, confidence |-> 24,
                    description |-> <<"sell_orders">>, numpy |-> FALSE])
    ELSE Nothing

analyze_structural_factors(price_change, movement_type) ==
    IF movement_type \in {"crash", "dump"}
    THEN Some([factor_type |-> "structural", impact_score |-> -72, confidence |-> 42,
               description |-> <<"forced_selling">>, numpy |-> FALSE])
    ELSE IF movement_type \in {"surge", "pump"}
    THEN Some([factor_type |-> "structural", impact_score |-> 72, confidence |-> 42,
               description |-> <<"heavy_buying">>, numpy |-> FALSE])
    ELSE IF RatGt(RatAbs(price_change), 2)
    THEN IF RatGt(price_change, 0)
         THEN Some([factor_type |-> "structural", impact_score |-> 36, confidence |-> 24,
                    description |-> <<"buy_orders">>, numpy |-> FALSE])
         ELSE Some([factor_type |-> "structural", impact_score |-> -36, confidence |-> 24,
                    description |-> <<"sell_orders">>, numpy |-> FALSE])
    ELSE Nothing

----------------------------------------------------------------------------
(* PriceDriverAnalyzer.analyze_price_movement *)

SortKey(f) == Abs(f.impact_score) * f.confidence

RECURSIVE InsertByKey_BeforeEqual(_, _)
InsertByKey_BeforeEqual(sorted, f) ==
    IF Len(sorted) = 0 THEN << f >>
    ELSE IF SortKey(Head(sorted)) > SortKey(f)
         THEN << Head(sorted) >> \o InsertByKey_BeforeEqual(Tail(sorted), f)
         ELSE << f >> \o sorted

\* list.sort(key=..., reverse=True): stable, descending
RECURSIVE InsertByKey(_, _)
InsertByKey(sorted, f) ==
    IF Len(sorted) = 0 THEN << f >>
    ELSE IF SortKey(Head(sorted)) >= SortKey(f)
         THEN << Head(sorted) >> \o InsertByKey(Tail(sorted), f)
         ELSE << f >> \o sorted

RECURSIVE SortFactors(_)
SortFactors(fs) ==
    IF Len(fs) = 0 THEN << >>
    ELSE InsertByKey(SortFactors(SubSeq(fs, 1, Len(fs) - 1)), fs[Len(fs)])

Top3_Four(fs) == SubSeq(fs, 1, IF Len(fs) < 4 THEN Len(fs) ELSE 4)

\* factors[:3]
Top3(fs) == SubSeq(fs, 1, IF Len(fs) < 3 THEN Len(fs) ELSE 3)

RECURSIVE SumConfImpact(_)
SumConfImpact(fs) ==
    IF Len(fs) = 0 THEN 0
    ELSE Head(fs).confidence * Abs(Head(fs).impact_score) + SumConfImpact(Tail(fs))

RECURSIVE SumImpact(_)
SumImpact(fs) ==
    IF Len(fs) = 0 THEN 0
    ELSE Abs(Head(fs).impact_score) + SumImpact(Tail(fs))

\* "{:.1f}": tenths of a percent, rounded to nearest
Round1(q) == (2 * 10 * q.n + q.d) \div (2 * q.d)

generate_movement_summary(price_change, movement_type, factors) ==
    [movement |-> movement_type,
     change |-> IF movement_type \in {"crash", "dump", "normal_down"}
                THEN Round1(RatAbs(price_change))
                ELSE IF movement_type = "stable" THEN 0
                ELSE Round1(price_change),
     primary |-> IF Len(factors) > 0 THEN Some(factors[1].description) ELSE Nothing,
     secondary |-> IF Len(factors) > 1 THEN Some(factors[2].description) ELSE Nothing]

StrongMomentum_Magnitude(movement_type, primary_impact) ==
    2 * Abs(primary_impact) > IU

\* primary_impact > 0.5 for normal_up, primary_impact < -0.5 for normal_down
StrongMomentum(movement_type, primary_impact) ==
    IF movement_type = "normal_up"
    THEN 2 * primary_impact > IU
    ELSE 2 * primary_impact < -IU

generate_recommendation(movement_type, factors) ==
    IF movement_type \in {"crash", "dump"} THEN "avoid_panic_selling"
    ELSE IF movement_type \in {"surge", "pump"} THEN "avoid_fomo_buying"
    ELSE IF movement_type = "normal_up"
    THEN LET primary_impact == IF Len(factors) > 0 THEN factors[1].impact_score ELSE 0
         IN  IF StrongMomentum(movement_type, primary_impact)
             THEN "strong_up_momentum" ELSE "moderate_rise"
    ELSE IF movement_type = "normal_down"
    THEN LET primary_impact == IF Len(factors) > 0 THEN factors[1].impact_score ELSE 0
         IN  IF StrongMomentum(movement_type, primary_impact)
             THEN "strong_down_momentum" ELSE "temporary_correction"
    ELSE "wait_and_watch"

\* min(1.0, max(0.0, confidence)) on a rational n/d with d > 0
Clamp01(q) == IF q.n < 0 THEN [n |-> 0, d |-> 1]
              ELSE IF q.n > q.d THEN [n |-> 1, d |-> 1]
              ELSE q

Raised(exc) == [status |-> "raised", exception |-> exc]

RECURSIVE SumConf(_)
SumConf(fs) == IF Len(fs) = 0 THEN 0 ELSE Head(fs).confidence + SumConf(Tail(fs))

AggregateConfidence_Unweighted(top) ==
    IF Len(top) > 0
    THEN [n |-> SumConf(top), d |-> CU * Len(top)]
    ELSE [n |-> 1, d |-> 2]

\* sum(confidence * |impact|) / sum(|impact|) over factors[:3], else 0.5
AggregateConfidence(top) ==
    IF Len(top) > 0
    THEN [n |-> SumConfImpact(top), d |-> CU * SumImpact(top)]
    ELSE [n |-> 1, d |-> 2]

IsMinorMove_Half(price_change) == 2 * Abs(price_change.n) < price_change.d

\* abs(price_change) < 1.0
IsMinorMove(price_change) == RatLt(RatAbs(price_change), 1)

PriceChange_OverCurrent(current_price, price_24h_ago) ==
    Rat((current_price - price_24h_ago) * 100, current_price)

\* ((current_price - price_24h_ago) / price_24h_ago) * 100
PriceChange(current_price, price_24h_ago) ==
    Rat((current_price - price_24h_ago) * 100, price_24h_ago)

\* what the four analyzers return, in the order lines 85-104 call them
AnalyzerOutputs(c, price_change, movement_type) ==
    << IF c.price_data.given
       THEN analyze_technical_factors(c.price_data, price_change)
       ELSE Nothing,
       analyze_sentiment_factors(c.sentiment, price_change),
       analyze_macro_factors(c.macro, price_change),
       analyze_structural_factors(price_change, movement_type) >>

\* "factors" after the appends, the outputs being appended in the given order
Merge(outputs, order) ==
    outputs[order[1]] \o outputs[order[2]] \o outputs[order[3]] \o outputs[order[4]]

\* the factors appended to "factors", in evaluation order
CollectFactors(c, price_change, movement_type) ==
    Merge(AnalyzerOutputs(c, price_change, movement_type), << 1, 2, 3, 4 >>)

\* lines 106-126: sort, summary, recommendation, confidence, result
Attribute(price_change, movement_type, merged) ==
    LET factors == SortFactors(merged)
        top == Top3(factors)
        result(confidence) ==
            [status |-> "ok",
             price_change_percent |-> price_change,
             movement_type |-> movement_type,
             primary_factors |-> top,
             summary |-> generate_movement_summary(price_change, movement_type, factors),
             recommendation |-> generate_recommendation(movement_type, factors),
             confidence |-> Clamp01(confidence)]
    IN  IF Len(factors) > 0 /\ SumImpact(top) = 0
        THEN \* 0.0 / 0.0: a numpy scalar numerator gives nan, and
             \* min(1.0, max(0.0, nan)) is 0.0; Python floats raise
             IF \E k \in 1..Len(top) : top[k].numpy
             THEN result([n |-> 0, d |-> 1])
             ELSE Raised("ZeroDivisionError")
        ELSE result(AggregateConfidence(top))

\* c is the call: current_price, price_24h_ago, price_data and what the
\* sentiment and macro feeds answer during the call.  Python numbers are
\* assumed for the two prices, so a zero price_24h_ago raises.
analyze_price_movement(c) ==
    IF c.price_24h_ago = 0 THEN Raised("ZeroDivisionError")
    ELSE
    LET price_change == PriceChange(c.current_price, c.price_24h_ago)
        movement_type == Analyzer_classify_movement(price_change)
    IN  IF IsMinorMove(price_change)
        THEN [status |-> "ok",
              price_change_percent |-> price_change,
              movement_type |-> "stable",
              primary_factors |-> << >>,
              summary |-> [movement |-> "steady", change |-> 0,
                           primary |-> Nothing, secondary |-> Nothing],
              recommendation |-> "watch",
              confidence |-> [n |-> 4, d |-> 5]]
        ELSE Attribute(price_change, movement_type,
                       CollectFactors(c, price_change, movement_type))

----------------------------------------------------------------------------
(* Inputs of a single call of analyze_price_movement *)

NoPriceData ==
    [given |-> FALSE, len |-> 0, raises |-> FALSE, rsi |-> Nothing, macd |-> 0,
     macd_signal |-> 0, crossed |-> FALSE, sma_short_above |-> FALSE,
     bollinger |-> "inside"]

ShortWindow(l) == [NoPriceData EXCEPT !.given = TRUE, !.len = l]

\* lengths of windows too short for the indicators
ShortLens == {0, 4, 5, 25}
WindowLen == 47
RsiValues == {Nothing, Some(Rat(0, 1)), Some(Rat(25, 1)), Some(Rat(60, 1)), Some(Rat(85, 1))}
MacdPairs == { <<1, -1>>, <<-1, 1>>, <<0, 0>> }

FullWindows ==
    { [given |-> TRUE, len |-> WindowLen, raises |-> FALSE, rsi |-> r, macd |-> m[1],
       macd_signal |-> m[2], crossed |-> x, sma_short_above |-> a,
       bollinger |-> "inside"] :
         r \in RsiValues, m \in MacdPairs, x \in BOOLEAN, a \in BOOLEAN }

\* a window that gives a SELL signal of confidence 0.6 with an oversold RSI
SellWindow ==
    [given |-> TRUE, len |-> WindowLen, raises |-> FALSE, rsi |-> Some(Rat(25, 1)),
     macd |-> -1, macd_signal |-> 1, crossed |-> TRUE, sma_short_above |-> FALSE,
     bollinger |-> "above"]

PriceDataInputs ==
    {NoPriceData} \cup { ShortWindow(l) : l \in ShortLens } \cup FullWindows
        \cup { [ShortWindow(WindowLen) EXCEPT !.raises = TRUE], SellWindow }

SentimentRaises == [raises |-> TRUE, fear_greed_index |-> Nothing, social_sentiment |-> Nothing]
Sentiment(fg, social) == [raises |-> FALSE, fear_greed_index |-> fg, social_sentiment |-> social]

SentimentInputs ==
    {SentimentRaises} \cup
    { Sentiment(fg, Nothing) : fg \in {Nothing, Some(0), Some(10), Some(30), Some(50), Some(90)} }
    \cup { Sentiment(Some(70), Some(5)) }

MacroRaises == [raises |-> TRUE, market_indices |-> << >>]
Macro(m) == [raises |-> FALSE, market_indices |-> m]

MacroInputs ==
    { MacroRaises,
      Macro(<< >>),
      Macro([k \in {"NASDAQ"} |-> 1]),
      Macro([k \in {"NASDAQ"} |-> 0]),
      Macro([k \in {"NASDAQ", "DXY"} |-> IF k = "NASDAQ" THEN -1 ELSE 1]),
      Macro([k \in {"VIX"} |-> 7]),
      Macro([k \in {"DXY", "VIX", "GOLD"} |-> IF k = "GOLD" THEN 2 ELSE -7]),
      Macro([k \in {"NASDAQ", "DXY", "VIX", "GOLD"} |-> IF k = "VIX" THEN -30 ELSE 1]),
      Macro([k \in {"NASDAQ", "DXY", "VIX"} |-> IF k = "NASDAQ" THEN 1 ELSE -7]),
      Macro([k \in {"NASDAQ", "VIX"} |-> IF k = "NASDAQ" THEN 1 ELSE 2]),
      Macro([k \in {"GOLD"} |-> 7]) }

\* << current_price, price_24h_ago >>
PricePairs ==
    { <<50000, 42000>>, <<35000, 42000>>, <<1000, 1003>>,
      <<170, 200>>, <<184, 200>>, <<194, 200>>, <<196, 200>>, <<197, 200>>,
      <<198, 200>>, <<199, 200>>, <<200, 200>>, <<201, 200>>, <<202, 200>>,
      <<203, 200>>, <<204, 200>>, <<205, 200>>, <<206, 200>>, <<216, 200>>,
      <<230, 200>>,
      <<100, 0>>, <<100, -50>>, <<-49, -50>> }

ExplainCalls ==
    { [fn |-> "analyze_price_movement", current_price |-> p[1], price_24h_ago |-> p[2],
       price_data |-> w, sentiment |-> s, macro |-> m] :
         p \in PricePairs, w \in PriceDataInputs, s \in SentimentInputs, m \in MacroInputs }

InitExplain ==
    /\ crypto_data = NoData /\ i = 0 /\ phase = Idle
    /\ validation_results = << >> /\ correct_predictions = 0
    /\ movement_type_stats = << >> /\ factor_stats = << >>
    /\ step_log = << >> /\ report = NoReport
    /\ call \in ExplainCalls
    /\ analysis = NoAnalysis
    /\ arg = NoArg /\ ret = NoRet

Explain ==
    /\ call.fn = "analyze_price_movement" /\ analysis = NoAnalysis
    /\ analysis' = analyze_price_movement(call)
    /\ UNCHANGED << replayVars, call, arg, ret >>

NextExplain == Explain

SpecExplain == InitExplain /\ [][NextExplain]_vars

----------------------------------------------------------------------------
(* PriceDriverValidator.validate_price_predictions *)

Lag == 24
LookBack == 47
RecentResults == 10

Min(a, b) == IF a < b THEN a ELSE b
Max(a, b) == IF a > b THEN a ELSE b

\* Python slice [start:stop] on a sequence of n items: the half-open index
\* range actually read (a negative bound counts from the end)
SliceIdx(n, k) == IF k < 0 THEN Max(k + n, 0) ELSE Min(k, n)
SliceRange(n, start, stop) == [lo |-> SliceIdx(n, start), hi |-> SliceIdx(n, stop)]
SliceLen(r) == IF r.hi > r.lo THEN r.hi - r.lo ELSE 0

\* crypto_data.iloc[j]['Close'], j counted from 0
Close(j) == crypto_data.Close[j + 1]
DataLen == Len(crypto_data.Close)

\* a / b as a float: kept as the exact fraction
Ratio(a, b) == [n |-> a, d |-> b]
Zero == [n |-> 0, d |-> 1]

AccuracyRate_Unguarded(correct, total) == Ratio(correct, total + 1)

\* correct / total if total > 0 else 0
AccuracyRate(correct, total) == IF total > 0 THEN Ratio(correct, total) ELSE Zero

Tally_Reinitialised(stats, k, is_correct) ==
    LET new == [total |-> 1, correct |-> IF is_correct THEN 1 ELSE 0]
    IN  [x \in DOMAIN stats \cup {k} |-> IF x = k THEN new ELSE stats[x]]

\* movement_type_stats / factor_stats: increment the tally of key k
Tally(stats, k, is_correct) ==
    LET old == IF k \in DOMAIN stats THEN stats[k] ELSE [total |-> 0, correct |-> 0]
        new == [total |-> old.total + 1,
                correct |-> IF is_correct THEN old.correct + 1 ELSE old.correct]
    IN  [x \in DOMAIN stats \cup {k} |-> IF x = k THEN new ELSE stats[x]]

TallyFactors_FirstOnly(stats, factors, is_correct) ==
    IF Len(factors) = 0 THEN stats
    ELSE Tally(stats, Head(factors).factor_type, is_correct)

\* for factor in analysis.primary_factors: update factor_stats
RECURSIVE TallyFactors(_, _, _)
TallyFactors(stats, factors, is_correct) ==
    IF Len(factors) = 0 THEN stats
    ELSE TallyFactors(Tally(stats, Head(factors).factor_type, is_correct),
                      Tail(factors), is_correct)

RECURSIVE MaxConfidence(_)
MaxConfidence(factors) ==
    IF Len(factors) = 0 THEN 30
    ELSE IF Len(factors) = 1 THEN factors[1].confidence
    ELSE Max(Head(factors).confidence, MaxConfidence(Tail(factors)))

EmptyStats == [k \in {} |-> [total |-> 0, correct |-> 0]]

\* the historical series offered by the data collector: Base for all but the
\* last TailLen points, which are drawn from ReplayPrices
Base == 100
TailLen == 3
MaxLen == 49
ReplayPrices == {85, 102, 108}
\* the collector returns None, never an empty frame (lines 69-71)
ReplayLens == {1, 23, 24, 25, 26, 46} \cup (47..MaxLen)

SeriesOfLen(n) ==
    { [j \in 1..n |-> IF j <= n - TailLen THEN Base ELSE tail[n - j + 1]] :
        tail \in [1..TailLen -> ReplayPrices] }

HistoricalData ==
    {NoData} \cup
    { [available |-> TRUE, Close |-> c] : c \in UNION { SeriesOfLen(n) : n \in ReplayLens } }

\* TechnicalAnalyzer.calculate_rsi on crypto_data.iloc[lo:hi]: the latest of
\* 100 - 100 / (1 + gain / loss), gain and loss being the 14-period rolling
\* means of the rises and falls; NaN (no value) when both are zero.
RsiPeriod == 14

RECURSIVE SumRises(_, _, _)
SumRises(from, to, sign) ==
    IF from > to THEN 0
    ELSE Max(sign * (Close(from) - Close(from - 1)), 0) + SumRises(from + 1, to, sign)

RsiOfWindow(r) ==
    IF SliceLen(r) <= RsiPeriod THEN Nothing
    ELSE LET gain == SumRises(r.hi - RsiPeriod, r.hi - 1, 1)
             loss == SumRises(r.hi - RsiPeriod, r.hi - 1, -1)
         IN  IF gain = 0 /\ loss = 0 THEN Nothing
             ELSE Some(Rat(100 * gain, gain + loss))

\* the window handed to the engine at one step: its length, its RSI, and
\* what the EMA / SMA / band computations answer on it
ReplayWindows(r) ==
    IF SliceLen(r) < 26 THEN { ShortWindow(SliceLen(r)) }
    ELSE { [ShortWindow(SliceLen(r)) EXCEPT !.rsi = RsiOfWindow(r), !.macd = m[1],
                                            !.macd_signal = m[2], !.crossed = x] :
             m \in { <<-1, 1>>, <<1, -1>> }, x \in BOOLEAN }
ReplaySentiment == { Sentiment(Nothing, Nothing), Sentiment(Some(90), Nothing) }
ReplayMacro == { Macro(<< >>), Macro([k \in {"NASDAQ"} |-> 1]) }

InitReplay ==
    /\ crypto_data = NoData /\ i = 0 /\ phase = "init"
    /\ validation_results = << >> /\ correct_predictions = 0
    /\ movement_type_stats = EmptyStats /\ factor_stats = EmptyStats
    /\ step_log = << >> /\ report = NoReport
    /\ call = NoCall /\ analysis = NoAnalysis
    /\ arg = NoArg /\ ret = NoRet

\* lines 168-181: collect the data; ValueError when there is none
Collect ==
    /\ phase = "init"
    /\ \E data \in HistoricalData :
         /\ crypto_data' = data
         /\ phase' = IF data = NoData THEN "raised" ELSE "loop"
    /\ i' = Lag
    /\ validation_results' = << >>
    /\ correct_predictions' = 0
    /\ movement_type_stats' = EmptyStats
    /\ factor_stats' = EmptyStats
    /\ UNCHANGED << step_log, report, call, analysis, arg, ret >>

RecordResult_Prepend(results, validation_result) ==
    << validation_result >> \o results

\* line 226: validation_results.append(validation_result)
RecordResult(results, validation_result) ==
    Append(results, validation_result)

SkipStep_DropResults(reads) ==
    /\ step_log' = Append(step_log, reads @@ [outcome |-> "skipped"])
    /\ validation_results' = << >>
    /\ UNCHANGED << correct_predictions, movement_type_stats, factor_stats >>

SkipStep_CountsCorrect(reads) ==
    /\ step_log' = Append(step_log, reads @@ [outcome |-> "skipped"])
    /\ correct_predictions' = correct_predictions + 1
    /\ UNCHANGED << validation_results, movement_type_stats, factor_stats >>

\* lines 244-246, "except Exception: log; continue": nothing is recorded
SkipStep(reads) ==
    /\ step_log' = Append(step_log, reads @@ [outcome |-> "skipped"])
    /\ UNCHANGED << validation_results, correct_predictions,
                    movement_type_stats, factor_stats >>

\* one iteration of "for i in range(24, len(crypto_data))"
Step ==
    /\ phase = "loop" /\ i < DataLen
    /\ LET current_price == Close(i)
           price_24h_ago == Close(i - Lag)
           actual_change == Rat((current_price - price_24h_ago) * 100, price_24h_ago)
           actual_movement == Validator_classify_movement(actual_change)
           window == SliceRange(DataLen, i - LookBack, i)
       IN  \E w \in ReplayWindows(window), sen \in ReplaySentiment, mac \in ReplayMacro :
             LET c == [fn |-> "analyze_price_movement",
                       current_price |-> current_price,
                       price_24h_ago |-> price_24h_ago,
                       price_data |-> w, sentiment |-> sen, macro |-> mac]
                 reads == [t |-> i, current_idx |-> i, reference_idx |-> i - Lag,
                           window |-> window]
             IN  \* lines 199-204: one engine call per step, its result bound once
                 \E a \in {analyze_price_movement(c)} :
                 /\ call' = c
                 /\ analysis' = a
                 /\ IF a.status = "raised"
                    THEN SkipStep(reads)
                    ELSE \* lines 208-211: accuracy evaluated once per step
                         \E is_correct \in {evaluate_prediction_accuracy(
                                               actual_change, actual_movement,
                                               a.price_change_percent, a.movement_type)} :
                         LET validation_result ==
                                 [date |-> i,
                                  actual_change |-> actual_change,
                                  predicted_movement |-> a.movement_type,
                                  actual_movement |-> actual_movement,
                                  accuracy |-> is_correct,
                                  confidence |-> MaxConfidence(a.primary_factors),
                                  primary_factors |->
                                      [k \in 1..Len(a.primary_factors) |->
                                          a.primary_factors[k].factor_type]]
                         IN  /\ correct_predictions' =
                                    IF is_correct THEN correct_predictions + 1
                                    ELSE correct_predictions
                             /\ validation_results' =
                                    RecordResult(validation_results, validation_result)
                             /\ movement_type_stats' =
                                    Tally(movement_type_stats, actual_movement, is_correct)
                             /\ factor_stats' =
                                    TallyFactors(factor_stats, a.primary_factors, is_correct)
                             /\ step_log' = Append(step_log, reads @@ [outcome |-> "recorded"])
    /\ i' = i + 1
    /\ UNCHANGED << crypto_data, phase, report, arg, ret >>

\* lines 248-279: build the report
Finish ==
    /\ phase = "loop" /\ i >= DataLen
    /\ LET total_predictions == Len(validation_results)
           accuracy_rate == AccuracyRate(correct_predictions, total_predictions)
           movement_accuracy ==
               [m \in DOMAIN movement_type_stats |->
                   AccuracyRate(movement_type_stats[m].correct, movement_type_stats[m].total)]
           factor_effectiveness ==
               [f \in DOMAIN factor_stats |->
                   AccuracyRate(factor_stats[f].correct, factor_stats[f].total)]
       IN  report' = [built |-> TRUE,
                      total_predictions |-> total_predictions,
                      correct_predictions |-> correct_predictions,
                      accuracy_rate |-> accuracy_rate,
                      movement_type_accuracy |-> movement_accuracy,
                      factor_effectiveness |-> factor_effectiveness,
                      validation_results |->
                          SubSeq(validation_results,
                                 Max(1, total_predictions - RecentResults + 1),
                                 total_predictions)]
    /\ phase' = "done"
    /\ UNCHANGED << crypto_data, i, validation_results, correct_predictions,
                    movement_type_stats, factor_stats, step_log, call, analysis, arg, ret >>

Next == Collect \/ Step \/ Finish

Spec == InitReplay /\ [][Next]_vars

----------------------------------------------------------------------------
(* Specification of single calls of the pure helpers *)

\* percent changes offered to the classifier: tenths of a percent
MaxTenths == 170
ClassifyInputs == { Rat(n, 10) : n \in -MaxTenths..MaxTenths }

\* percent changes offered to the evaluator: whole percents
EvalChanges == { Rat(n, 1) : n \in {-10, -3, -1, 0, 1, 2, 7, 9, 10, 12} }

ReplayIdle ==
    /\ crypto_data = NoData /\ i = 0 /\ phase = Idle
    /\ validation_results = << >> /\ correct_predictions = 0
    /\ movement_type_stats = << >> /\ factor_stats = << >>
    /\ step_log = << >> /\ report = NoReport

InitClassify ==
    /\ ReplayIdle
    /\ call = NoCall /\ analysis = NoAnalysis
    /\ arg \in [fn : {"classify_movement"}, price_change : ClassifyInputs]
    /\ ret = NoRet

CallClassify ==
    /\ arg.fn = "classify_movement" /\ ret = NoRet
    /\ ret' = Returned(Analyzer_classify_movement(arg.price_change))
    /\ UNCHANGED << replayVars, call, analysis, arg >>

NextClassify == CallClassify

SpecClassify == InitClassify /\ [][NextClassify]_vars

\* the same percent change classified by the engine and by the validator, as
\* one replay step does (backtesting.py:194 and price_driver.py:66)
NoneClassified == [c \in {} |-> "stable"]

InitClassifiers ==
    /\ ReplayIdle
    /\ call = NoCall /\ analysis = NoAnalysis
    /\ arg \in [fn : {"both_classifiers"}, price_change : ClassifyInputs]
    /\ ret = NoneClassified

CallAnalyzerClassify ==
    /\ arg.fn = "both_classifiers" /\ "analyzer" \notin DOMAIN ret
    /\ ret' = [c \in DOMAIN ret \cup {"analyzer"} |->
                 IF c = "analyzer" THEN Analyzer_classify_movement(arg.price_change)
                 ELSE ret[c]]
    /\ UNCHANGED << replayVars, call, analysis, arg >>

CallValidatorClassify ==
    /\ arg.fn = "both_classifiers" /\ "validator" \notin DOMAIN ret
    /\ ret' = [c \in DOMAIN ret \cup {"validator"} |->
                 IF c = "validator" THEN Validator_classify_movement(arg.price_change)
                 ELSE ret[c]]
    /\ UNCHANGED << replayVars, call, analysis, arg >>

NextClassifiers == CallAnalyzerClassify \/ CallValidatorClassify

SpecClassifiers == InitClassifiers /\ [][NextClassifiers]_vars

InitEvaluate ==
    /\ ReplayIdle
    /\ call = NoCall /\ analysis = NoAnalysis
    /\ arg \in [fn : {"evaluate_prediction_accuracy"},
                actual_change : EvalChanges, actual_movement : MovementTypes,
                predicted_change : EvalChanges, predicted_movement : MovementTypes]
    /\ ret = NoRet

CallEvaluate ==
    /\ arg.fn = "evaluate_prediction_accuracy" /\ ret = NoRet
    /\ ret' = Returned(evaluate_prediction_accuracy(arg.actual_change, arg.actual_movement,
                                                    arg.predicted_change, arg.predicted_movement))
    /\ UNCHANGED << replayVars, call, analysis, arg >>

NextEvaluate == CallEvaluate

SpecEvaluate == InitEvaluate /\ [][NextEvaluate]_vars

----------------------------------------------------------------------------
(* Claims about a single call of analyze_price_movement (SpecExplain) *)

\* the band of percent changes of each movement type
InBand(b, x) ==
    CASE b = "crash"       -> x.n <= -15 * x.d
      [] b = "dump"        -> -15 * x.d < x.n /\ x.n <= -8 * x.d
      [] b = "normal_down" -> -8 * x.d < x.n /\ x.n <= -3 * x.d
      [] b = "stable"      -> -3 * x.d < x.n /\ x.n < 3 * x.d
      [] b = "normal_up"   -> 3 * x.d <= x.n /\ x.n < 8 * x.d
      [] b = "pump"        -> 8 * x.d <= x.n /\ x.n < 15 * x.d
      [] b = "surge"       -> 15 * x.d <= x.n

Called == analysis # NoAnalysis
PercentTimesBase == (call.current_price - call.price_24h_ago) * 100

(* C2: a call whose percent change has magnitude below 1.0 returns
   movement_type stable, no primary factor and confidence 0.8, whatever the
   window and the feeds are. *)
C2_MinorMoveShortCircuit ==
    (Called /\ call.price_24h_ago # 0
       /\ Abs(PercentTimesBase) < Abs(call.price_24h_ago)) =>
        /\ analysis.status = "ok"
        /\ analysis.movement_type = "stable"
        /\ analysis.primary_factors = << >>
        /\ analysis.confidence.n * 5 = 4 * analysis.confidence.d

C2_Witness ==
    /\ Called /\ analysis.status = "ok"
    /\ call.current_price = 201 /\ call.price_24h_ago = 200
    /\ call.sentiment.raises /\ call.macro.raises
    /\ call.price_data.len = WindowLen /\ call.price_data.rsi = Some(Rat(0, 1))
    /\ analysis.primary_factors = << >>

Score(f) == Abs(f.impact_score) * f.confidence
Produced ==
    IF IsMinorMove(analysis.price_change_percent) THEN << >>
    ELSE CollectFactors(call, analysis.price_change_percent, analysis.movement_type)

(* C4: primary_factors has at most 3 entries, in non-increasing order of
   |impact_score| x confidence, and no produced factor that was left out
   scores strictly higher than a retained one. *)
C4_TopThreeRanked ==
    (Called /\ analysis.status = "ok") =>
        LET pf == analysis.primary_factors
            kept == { pf[k] : k \in 1..Len(pf) }
        IN  /\ Len(pf) <= 3
            /\ \A k \in 1..(Len(pf) - 1) : Score(pf[k]) >= Score(pf[k + 1])
            /\ \A j \in 1..Len(Produced) :
                 Produced[j] \notin kept =>
                   \A f \in kept : Score(Produced[j]) <= Score(f)

C4_Witness ==
    /\ Called /\ analysis.status = "ok"
    /\ Len(Produced) = 4
    /\ Len(analysis.primary_factors) = 3
    /\ Score(analysis.primary_factors[1]) > Score(analysis.primary_factors[3])

(* C5: outside the short circuit, when a retained factor has non-zero impact
   the confidence is sum(confidence_i x |impact_i|) / sum(|impact_i|) over the
   retained factors; with no produced factor it is 0.5; it always lies in
   [0, 1]. *)
C5_WeightedConfidence ==
    (Called /\ analysis.status = "ok") =>
        LET pf == analysis.primary_factors
            weights == SumImpact(pf)
            weighted == SumConfImpact(pf)
            conf == analysis.confidence
        IN  /\ 0 <= conf.n /\ conf.n <= conf.d /\ conf.d > 0
            /\ (~IsMinorMove(analysis.price_change_percent) /\ weights > 0) =>
                 conf.n * (CU * weights) = weighted * conf.d
            /\ (~IsMinorMove(analysis.price_change_percent) /\ Len(Produced) = 0) =>
                 conf.n * 2 = conf.d

C5_Witness ==
    /\ Called /\ analysis.status = "ok"
    /\ Len(Produced) = 4
    /\ Len(analysis.primary_factors) = 3
    /\ analysis.primary_factors[1].confidence # analysis.primary_factors[2].confidence
    /\ analysis.primary_factors[1].impact_score # analysis.primary_factors[2].impact_score
    /\ Produced[4] \notin { analysis.primary_factors[k] : k \in 1..3 }

(* C6: the confidence aggregation never divides by zero: when every retained
   factor has impact_score 0 the call still returns, with confidence 0.5. *)
C6_ZeroImpactGivesHalf ==
    (Called /\ call.price_24h_ago > 0) =>
        /\ analysis.status = "ok"
        /\ (/\ ~IsMinorMove(analysis.price_change_percent)
            /\ SumImpact(analysis.primary_factors) = 0) =>
               analysis.confidence.n * 2 = analysis.confidence.d

(* C7: a call with price_24h_ago <= 0 is rejected with an invalid-input
   failure and returns no AttributionResult. *)
C7_NonPositiveReferenceRejected ==
    (Called /\ call.price_24h_ago <= 0) =>
        /\ analysis.status = "raised"
        /\ analysis.exception = "InvalidInput"

(* C13: when the sentiment feed, the macro feed or the indicator computation
   fails during a call with a positive reference price, the call still returns
   a result, the failing analyzer contributes no factor, and the result is the
   one the call gives when that analyzer reports no signal instead. *)
AnyFails(c) == c.sentiment.raises \/ c.macro.raises \/ c.price_data.raises

Silenced(c) ==
    [c EXCEPT !.sentiment = IF @.raises THEN Sentiment(Nothing, Nothing) ELSE @,
              !.macro = IF @.raises THEN Macro(<< >>) ELSE @,
              !.price_data = IF @.raises THEN NoPriceData ELSE @]

FactorTypes(a) == { a.primary_factors[k].factor_type : k \in 1..Len(a.primary_factors) }

C13_FeedFailureAbsorbed ==
    (Called /\ AnyFails(call) /\ call.price_24h_ago > 0) =>
        /\ analysis.status = "ok"
        /\ call.sentiment.raises => "sentiment" \notin FactorTypes(analysis)
        /\ call.macro.raises => "macro" \notin FactorTypes(analysis)
        /\ call.price_data.raises => "technical" \notin FactorTypes(analysis)
        /\ analysis = analyze_price_movement(Silenced(call))

(* C14: when the price window is absent or shorter than 26 points, a call
   with a positive reference price raises nothing and primary_factors holds no
   factor of type technical. *)
C14_ShortWindowNoTechnical ==
    (/\ Called /\ call.price_24h_ago > 0
     /\ (~call.price_data.given \/ call.price_data.len < 26)) =>
        /\ analysis.status = "ok"
        /\ "technical" \notin FactorTypes(analysis)

C14_Witness ==
    /\ Called /\ analysis.status = "ok"
    /\ call.price_data.given /\ call.price_data.len = 25 /\ ~call.price_data.raises
    /\ ~IsMinorMove(analysis.price_change_percent)
    /\ Len(analysis.primary_factors) = 1
    /\ "technical" \notin FactorTypes(analysis)

(* C15: every factor an analyzer returns, retained or not, has impact_score
   in [-1, 1] and confidence in [0, 1], also when the macro correlation
   signals lie outside [-1, 1]. *)
C15_FactorRanges ==
    (Called /\ analysis.status = "ok") =>
        \A k \in 1..Len(Produced) :
            /\ -IU <= Produced[k].impact_score /\ Produced[k].impact_score <= IU
            /\ 0 <= Produced[k].confidence /\ Produced[k].confidence <= CU
            /\ Produced[k].factor_type \in {"technical", "sentiment", "macro", "structural"}

C15_Witness ==
    /\ Called /\ analysis.status = "ok"
    /\ ~call.macro.raises
    /\ \E k \in DOMAIN calculate_crypto_correlation_signals(call.macro.market_indices) :
          calculate_crypto_correlation_signals(call.macro.market_indices)[k] > IU
    /\ \E k \in 1..Len(Produced) :
          /\ Produced[k].factor_type = "macro"
          /\ Produced[k].impact_score = IU
    /\ { Produced[k].factor_type : k \in 1..Len(Produced) }
          = {"technical", "sentiment", "macro", "structural"}

(* C16: every result of a call with a positive reference price has
   price_change_percent = (current_price - price_24h_ago) / price_24h_ago x 100
   and the movement_type whose band contains that value, on the short-circuit
   path too; (50000, 42000) gives surge, (35000, 42000) crash and
   (100, 100.3) stable. *)
C16_ChangeAndMovement ==
    (Called /\ analysis.status = "ok" /\ call.price_24h_ago > 0) =>
        LET x == analysis.price_change_percent
        IN  \* the fraction (current - reference) x 100 / reference itself
            /\ x.n = PercentTimesBase /\ x.d = call.price_24h_ago
            /\ InBand(analysis.movement_type, x)
            /\ <<call.current_price, call.price_24h_ago>> = <<50000, 42000>>
                  => analysis.movement_type = "surge"
            /\ <<call.current_price, call.price_24h_ago>> = <<35000, 42000>>
                  => analysis.movement_type = "crash"
            /\ <<call.current_price, call.price_24h_ago>> = <<1000, 1003>>
                  => analysis.movement_type = "stable"

C16_Witness ==
    /\ Called /\ analysis.status = "ok"
    /\ call.current_price = 1000 /\ call.price_24h_ago = 1003
    /\ analysis.movement_type = "stable"
    /\ analysis.primary_factors = << >>
    /\ Analyzer_classify_movement(analysis.price_change_percent) = "stable"

(* C18: the result does not depend on the order in which the four
   analyzers' outputs are merged before the sort: every permutation of the
   merge order gives the same primary_factors, summary, recommendation and
   confidence. *)
MergeOrders == { o \in [1..4 -> 1..4] : \A x, y \in 1..4 : o[x] = o[y] => x = y }

C18_MergeOrderIrrelevant ==
    (/\ Called /\ analysis.status = "ok" /\ call.price_24h_ago > 0
     /\ ~IsMinorMove(analysis.price_change_percent)) =>
        LET outputs == AnalyzerOutputs(call, analysis.price_change_percent,
                                       analysis.movement_type)
        IN  \A o \in MergeOrders :
                Attribute(analysis.price_change_percent, analysis.movement_type,
                          Merge(outputs, o)) = analysis

(* C21 as claimed: for every percent change that reaches factor analysis
   (|change| >= 1.0) the structural analyzer returns a factor. *)
CallChange == PriceChange(call.current_price, call.price_24h_ago)
Structural == analyze_structural_factors(CallChange, Analyzer_classify_movement(CallChange))
ReachesAnalysis == Called /\ call.price_24h_ago > 0 /\ ~IsMinorMove(CallChange)

C21_StructuralNeverAbsent ==
    ReachesAnalysis => IsSome(Structural)

(* C21 as amended: for a change that reaches factor analysis the structural
   analyzer returns a factor exactly when |change| > 2.0; it returns None for
   1.0 <= |change| <= 2.0.  The factor is -0.6 / 0.7 for crash and dump,
   +0.6 / 0.7 for surge and pump, and otherwise +-0.3 / 0.4 with the sign of
   the change. *)
C21_StructuralAboveTwo ==
    ReachesAnalysis =>
        LET x == CallChange
            big == Abs(x.n) >= 8 * x.d
        IN  /\ IsSome(Structural) <=> Abs(x.n) > 2 * x.d
            /\ IsSome(Structural) =>
                  /\ Get(Structural).factor_type = "structural"
                  /\ Get(Structural).impact_score =
                        (IF x.n > 0 THEN 1 ELSE -1) * (IF big THEN 72 ELSE 36)
                  /\ Get(Structural).confidence = (IF big THEN 42 ELSE 24)
            /\ (analysis.status = "ok" /\ ~IsSome(Structural)) =>
                  "structural" \notin FactorTypes(analysis)

C21_Witness ==
    /\ ReachesAnalysis /\ analysis.status = "ok"
    /\ call.current_price = 204 /\ call.price_24h_ago = 200
    /\ ~IsSome(Structural)
    /\ Len(analysis.primary_factors) = 3

(* C22: produced factors with equal |impact_score| x confidence appear in
   primary_factors in evaluation order (technical, sentiment, macro,
   structural), and when only one of them fits in the top 3 the one evaluated
   earlier is retained. *)
EvalOrder == << "technical", "sentiment", "macro", "structural" >>
EvalRank(ty) == CHOOSE k \in 1..4 : EvalOrder[k] = ty
Position(fs, f) == CHOOSE k \in 1..Len(fs) : fs[k] = f

C22_TiesKeepEvaluationOrder ==
    (Called /\ analysis.status = "ok" /\ call.price_24h_ago > 0) =>
        LET pf == analysis.primary_factors
            kept == { pf[k] : k \in 1..Len(pf) }
        IN  /\ \A j, k \in 1..Len(Produced) :
                  j < k => EvalRank(Produced[j].factor_type) < EvalRank(Produced[k].factor_type)
            /\ kept \subseteq { Produced[k] : k \in 1..Len(Produced) }
            /\ \A j, k \in 1..Len(Produced) :
                  (j < k /\ Score(Produced[j]) = Score(Produced[k]) /\ Produced[k] \in kept) =>
                      /\ Produced[j] \in kept
                      /\ Position(pf, Produced[j]) < Position(pf, Produced[k])

C22_Witness ==
    /\ Called /\ analysis.status = "ok" /\ call.price_24h_ago > 0
    /\ Len(Produced) = 4
    /\ Score(Produced[1]) = Score(Produced[2])
    /\ Score(Produced[3]) > Score(Produced[1]) /\ Score(Produced[4]) > Score(Produced[1])
    /\ analysis.primary_factors[3] = Produced[1]
    /\ Produced[2] \notin { analysis.primary_factors[k] : k \in 1..3 }

(* C23: whenever the technical analyzer returns a factor, its impact_score
   is the average of an RSI component (-0.6 if RSI > 70, +0.6 if RSI < 30,
   +0.3 if 50 < RSI <= 70, -0.3 if 30 <= RSI <= 50, for every RSI in
   [0, 100]) and a MACD component (+0.4 when MACD is above its signal line
   and the price rose, -0.4 when below and the price fell, 0 otherwise). *)
Technical ==
    IF call.price_data.given
    THEN analyze_technical_factors(call.price_data, CallChange)
    ELSE Nothing

RsiComponent(rsi) ==
    IF RatGt(rsi, 70) THEN -72
    ELSE IF RatLt(rsi, 30) THEN 72
    ELSE IF RatGt(rsi, 50) THEN 36
    ELSE -36

MacdComponent(macd, macd_signal, x) ==
    IF macd > macd_signal /\ x.n > 0 THEN 48
    ELSE IF macd < macd_signal /\ x.n < 0 THEN -48
    ELSE 0

C23_TechnicalImpact ==
    (ReachesAnalysis /\ IsSome(Technical)) =>
        /\ IsSome(call.price_data.rsi)
        /\ 2 * Get(Technical).impact_score =
              RsiComponent(Get(call.price_data.rsi))
                + MacdComponent(call.price_data.macd, call.price_data.macd_signal, CallChange)

(* C24: for every fear-greed index in [0, 100] and every change reaching
   factor analysis the sentiment factor is: index > 75: +0.7 (up) or -0.8
   (down), confidence 0.8; index < 25: -0.7 (down) or +0.8 (up), confidence
   0.8; 60 < index <= 75: +0.4 or -0.3, and 25 <= index < 40: -0.4 or +0.3,
   confidence 0.6; 40 <= index <= 60: no sentiment factor. *)
SentimentOut == analyze_sentiment_factors(call.sentiment, CallChange)

C24_SentimentTable ==
    (/\ ReachesAnalysis /\ ~call.sentiment.raises
     /\ IsSome(call.sentiment.fear_greed_index)) =>
        LET fg == Get(call.sentiment.fear_greed_index)
            up == CallChange.n > 0
            Is(impact, conf) ==
                /\ IsSome(SentimentOut)
                /\ Get(SentimentOut).factor_type = "sentiment"
                /\ Get(SentimentOut).impact_score = impact
                /\ Get(SentimentOut).confidence = conf
        IN  /\ fg > 75 => Is(IF up THEN 84 ELSE -96, 48)
            /\ fg < 25 => Is(IF up THEN 96 ELSE -84, 48)
            /\ (60 < fg /\ fg <= 75) => Is(IF up THEN 48 ELSE -36, 36)
            /\ (25 <= fg /\ fg < 40) => Is(IF up THEN 36 ELSE -48, 36)
            /\ (40 <= fg /\ fg <= 60) => ~IsSome(SentimentOut)

(* C25: whenever the macro analyzer returns a factor, its impact is
   2 x (mean of the available signals) clamped to [-1, 1] and its confidence
   is min(1.0, 0.5 + 0.2 k), k counting every available signal (gold flow
   included) whose magnitude exceeds 0.3; with no signal there is no macro
   factor. *)
MacroOut == analyze_macro_factors(call.macro, CallChange)

CallSignals == calculate_crypto_correlation_signals(call.macro.market_indices)

C25_MacroImpactAndConfidence ==
    (ReachesAnalysis /\ ~call.macro.raises) =>
        LET names == DOMAIN CallSignals
            k == Cardinality({ s \in names : Abs(CallSignals[s]) > 36 })
            twice_mean == (2 * SumOver(CallSignals, names)) \div Cardinality(names)
        IN  /\ names = {} => ~IsSome(MacroOut)
            /\ IsSome(MacroOut) =>
                  /\ Get(MacroOut).impact_score =
                        Max(-IU, Min(IU, twice_mean))
                  /\ Get(MacroOut).confidence = Min(CU, 30 + 12 * k)

TopImpact ==
    IF Len(analysis.primary_factors) > 0
    THEN analysis.primary_factors[1].impact_score
    ELSE 0

NormalMove ==
    /\ Called /\ analysis.status = "ok"
    /\ analysis.movement_type \in {"normal_up", "normal_down"}

StrongVariant == {"strong_up_momentum", "strong_down_momentum"}
ModerateVariant == {"moderate_rise", "temporary_correction"}

(* C26 as claimed: for normal_up and normal_down the recommendation is the
   strong-momentum variant exactly when the top-ranked factor's
   |impact_score| exceeds 0.5, whatever its sign, and the moderate variant
   otherwise. *)
C26_StrongByMagnitude ==
    NormalMove =>
        /\ analysis.recommendation \in StrongVariant \cup ModerateVariant
        /\ analysis.recommendation \in StrongVariant <=> 2 * Abs(TopImpact) > IU

(* C26 as amended: the strong variant is given exactly when the top-ranked
   factor's impact_score exceeds 0.5 in the direction of the move: above 0.5
   for normal_up, below -0.5 for normal_down; the moderate variant
   otherwise. *)
C26_StrongInDirection ==
    NormalMove =>
        /\ analysis.movement_type = "normal_up" =>
              analysis.recommendation =
                IF 2 * TopImpact > IU THEN "strong_up_momentum" ELSE "moderate_rise"
        /\ analysis.movement_type = "normal_down" =>
              analysis.recommendation =
                IF 2 * TopImpact < -IU THEN "strong_down_momentum"
                ELSE "temporary_correction"

C26_Witness ==
    /\ NormalMove
    /\ analysis.movement_type = "normal_up"
    /\ 2 * TopImpact < -IU
    /\ analysis.recommendation = "moderate_rise"

----------------------------------------------------------------------------
(* Claims about the replay (Spec) *)

(* C1: at every replay step t, the current price, the 24h-ago reference
   price and the price window handed to the attribution engine are all read
   from indices strictly below t. *)
C1_NoLookahead ==
    \A k \in 1..Len(step_log) :
        LET e == step_log[k]
        IN  /\ e.current_idx < e.t
            /\ e.reference_idx < e.t
            /\ (e.window.lo < e.window.hi => e.window.hi <= e.t)

Recorded == { k \in 1..Len(step_log) : step_log[k].outcome = "recorded" }
CountWhere(P(_)) == Cardinality({ k \in 1..Len(validation_results) : P(validation_results[k]) })

(* C9: in every report total_predictions is the number of recorded steps,
   correct_predictions <= total_predictions, accuracy_rate is
   correct_predictions / total_predictions, or 0 when nothing was recorded;
   a finished loop always yields a report. *)
C9_AccuracyRate ==
    /\ phase = "done" => report.built
    /\ report.built =>
        /\ report.total_predictions = Cardinality(Recorded)
        /\ report.total_predictions = Len(validation_results)
        /\ report.correct_predictions <= report.total_predictions
        /\ report.correct_predictions =
               CountWhere(LAMBDA r : r.accuracy)
        /\ report.accuracy_rate.d > 0
        /\ report.total_predictions > 0 =>
               report.accuracy_rate.n * report.total_predictions
                   = report.correct_predictions * report.accuracy_rate.d
        /\ report.total_predictions = 0 => report.accuracy_rate.n = 0

C9_Witness ==
    /\ report.built
    /\ report.total_predictions >= 2
    /\ report.total_predictions < Len(step_log)

(* C10: movement_type_accuracy has exactly the actual movement types of the
   recorded steps as keys, factor_effectiveness exactly the factor types of
   their primary factors, and each value is correct / total over those
   steps. *)
HasFactor(r, f) == \E j \in 1..Len(r.primary_factors) : r.primary_factors[j] = f

C10_ObservedKeysOnly ==
    report.built =>
        LET seenMoves == { validation_results[k].actual_movement :
                             k \in 1..Len(validation_results) }
            seenFactors == UNION { { validation_results[k].primary_factors[j] :
                                       j \in 1..Len(validation_results[k].primary_factors) } :
                                   k \in 1..Len(validation_results) }
        IN  /\ DOMAIN report.movement_type_accuracy = seenMoves
            /\ DOMAIN report.factor_effectiveness = seenFactors
            /\ \A m \in seenMoves :
                 LET v == report.movement_type_accuracy[m]
                     total == CountWhere(LAMBDA r : r.actual_movement = m)
                     correct == CountWhere(LAMBDA r : r.actual_movement = m /\ r.accuracy)
                 IN  v.d > 0 /\ v.n * total = correct * v.d
            /\ \A f \in seenFactors :
                 LET v == report.factor_effectiveness[f]
                     total == CountWhere(LAMBDA r : HasFactor(r, f))
                     correct == CountWhere(LAMBDA r : HasFactor(r, f) /\ r.accuracy)
                 IN  v.d > 0 /\ v.n * total = correct * v.d

C10_Witness ==
    /\ report.built
    /\ Cardinality(DOMAIN report.movement_type_accuracy) >= 2
    /\ "crash" \notin DOMAIN report.movement_type_accuracy
    /\ {"technical", "structural"} \subseteq DOMAIN report.factor_effectiveness
    /\ "sentiment" \notin DOMAIN report.factor_effectiveness

(* C11: a run on a series of fewer than 24 points fails fast: no step is
   executed and no BacktestReport is returned. *)
C11_InsufficientHistoryFails ==
    (crypto_data.available /\ DataLen < Lag) =>
        /\ step_log = << >>
        /\ ~report.built
        /\ phase # "done"

(* C12: a step that raises is skipped and nothing else: the loop attempts
   every index 24 .. len-1 in order whatever failed before, the results kept
   are exactly those of the steps that did not raise, and the run ends with a
   BacktestReport built from them. *)
C12_SkipIsLocal ==
    /\ \A k \in 1..Len(step_log) : step_log[k].t = Lag + k - 1
    /\ Len(validation_results) = Cardinality(Recorded)
    /\ \A k \in 1..Len(validation_results) :
         /\ validation_results[k].date \in { step_log[j].t : j \in Recorded }
         /\ k > 1 => validation_results[k - 1].date < validation_results[k].date
    /\ phase = "raised" => (crypto_data = NoData /\ step_log = << >>)
    /\ phase = "done" =>
         /\ Len(step_log) = Max(DataLen - Lag, 0)
         /\ report.built
         /\ report.total_predictions = Cardinality(Recorded)

C12_Witness ==
    /\ report.built
    /\ \E k \in 1..(Len(step_log) - 1) :
         /\ step_log[k].outcome = "skipped"
         /\ step_log[k + 1].outcome = "recorded"
         /\ step_log[k + 1].t \in
                { report.validation_results[j].date : j \in 1..Len(report.validation_results) }

(* C27: a replay over n points attempts exactly the indices 24 .. n-1, each
   once and in increasing order, and then ends with a report; results are
   appended in strictly increasing index order, none is ever removed or
   reordered, and recorded + skipped = max(0, n - 24). *)
Skipped == { k \in 1..Len(step_log) : step_log[k].outcome = "skipped" }

IsPrefix(s, u) == Len(s) <= Len(u) /\ SubSeq(u, 1, Len(s)) = s

AttemptsNextIndex ==
    step_log' # step_log =>
        /\ IsPrefix(step_log, step_log') /\ Len(step_log') = Len(step_log) + 1
        /\ step_log'[Len(step_log')].t = Lag + Len(step_log)
        /\ step_log'[Len(step_log')].t < DataLen

AppendsOnly ==
    /\ IsPrefix(validation_results, validation_results')
    /\ Len(validation_results') <= Len(validation_results) + 1
    /\ Len(validation_results') = Len(validation_results) + 1 =>
          LET new == validation_results'[Len(validation_results')]
          IN  /\ step_log' # step_log
              /\ new.date = step_log'[Len(step_log')].t
              /\ \A k \in 1..Len(validation_results) :
                    validation_results[k].date < new.date

\* number of steps the call still has to take before it returns
StepsLeft ==
    CASE phase = "init" -> MaxLen + 2
      [] phase = "loop" -> Max(0, DataLen - i) + 1
      [] OTHER -> 0

C27_AttemptsInOrderAppendOnly ==
    /\ [][AttemptsNextIndex /\ AppendsOnly /\ StepsLeft' < StepsLeft]_vars
    /\ []((phase = "loop" /\ i >= DataLen) => ENABLED Finish)
    /\ [](phase = "done" =>
            /\ report.built
            /\ Len(step_log) = Max(0, DataLen - Lag)
            /\ Len(validation_results) + Cardinality(Skipped) = Max(0, DataLen - Lag))

C27_Witness ==
    /\ phase = "done" /\ report.built
    /\ DataLen > Lag + 2
    /\ Len(validation_results) >= 2
    /\ Cardinality(Skipped) >= 1
    /\ Len(validation_results) + Cardinality(Skipped) = DataLen - Lag

(* C28: a step that is skipped because its attribution call raised leaves
   validation_results, correct_predictions, movement_type_stats and
   factor_stats exactly as they were before the step began. *)
StepSkipped ==
    /\ Len(step_log') = Len(step_log) + 1
    /\ step_log'[Len(step_log')].outcome = "skipped"

C28_SkippedStepChangesNothing ==
    [][StepSkipped =>
         /\ analysis'.status = "raised"
         /\ UNCHANGED << validation_results, correct_predictions,
                         movement_type_stats, factor_stats >>]_vars

C28_Witness ==
    /\ Len(step_log) > 1
    /\ step_log[Len(step_log)].outcome = "skipped"
    /\ analysis.status = "raised"
    /\ Len(validation_results) > 0 /\ correct_predictions > 0
    /\ DOMAIN movement_type_stats # {} /\ DOMAIN factor_stats # {}

(* C29: after any number of replay steps the totals of movement_type_stats
   add up to the number of recorded results and its correct counts to
   correct_predictions; every key of either tally has 1 <= total and
   0 <= correct <= total; and a factor type's total is at most the number of
   recorded results. *)
RECURSIVE SumTotal(_, _)
SumTotal(stats, keys) ==
    IF keys = {} THEN 0
    ELSE LET k == CHOOSE x \in keys : TRUE
         IN  stats[k].total + SumTotal(stats, keys \ {k})

RECURSIVE SumCorrect(_, _)
SumCorrect(stats, keys) ==
    IF keys = {} THEN 0
    ELSE LET k == CHOOSE x \in keys : TRUE
         IN  stats[k].correct + SumCorrect(stats, keys \ {k})

WellFormedTally(stats) ==
    \A k \in DOMAIN stats :
        /\ 1 <= stats[k].total
        /\ 0 <= stats[k].correct /\ stats[k].correct <= stats[k].total

C29_TalliesAddUp ==
    phase \in {"loop", "done"} =>
        /\ SumTotal(movement_type_stats, DOMAIN movement_type_stats)
              = Len(validation_results)
        /\ SumCorrect(movement_type_stats, DOMAIN movement_type_stats)
              = correct_predictions
        /\ WellFormedTally(movement_type_stats)
        /\ WellFormedTally(factor_stats)
        /\ \A f \in DOMAIN factor_stats :
              factor_stats[f].total <= Len(validation_results)

C29_Witness ==
    /\ Len(validation_results) >= 3
    /\ Cardinality(DOMAIN movement_type_stats) >= 2
    /\ \E m \in DOMAIN movement_type_stats : movement_type_stats[m].total >= 2
    /\ \E f \in DOMAIN factor_stats :
          /\ factor_stats[f].total >= 2
          /\ factor_stats[f].total < Len(validation_results)

(* C19: at every recorded step the engine's price_change_percent is the
   step's actual_change and its movement_type the step's actual_movement, so
   every recorded result is accurate, correct_predictions equals the number of
   results, and accuracy_rate and every entry of movement_type_accuracy and
   factor_effectiveness are 1 as soon as one step was recorded. *)
IsOne(q) == q.d > 0 /\ q.n = q.d

C19_ReplayAlwaysAccurate ==
    /\ (Len(step_log) > 0 /\ step_log[Len(step_log)].outcome = "recorded") =>
          LET last == validation_results[Len(validation_results)]
          IN  /\ analysis.status = "ok"
              /\ RatEq(analysis.price_change_percent, last.actual_change)
              /\ analysis.movement_type = last.actual_movement
    /\ \A k \in 1..Len(validation_results) :
          /\ validation_results[k].accuracy
          /\ validation_results[k].predicted_movement = validation_results[k].actual_movement
    /\ phase \in {"loop", "done"} => correct_predictions = Len(validation_results)
    /\ (report.built /\ report.total_predictions > 0) =>
          /\ report.correct_predictions = report.total_predictions
          /\ IsOne(report.accuracy_rate)
          /\ \A m \in DOMAIN report.movement_type_accuracy :
                IsOne(report.movement_type_accuracy[m])
          /\ \A f \in DOMAIN report.factor_effectiveness :
                IsOne(report.factor_effectiveness[f])

C19_Witness ==
    /\ report.built
    /\ report.total_predictions >= 3
    /\ {"crash", "pump", "stable"} \subseteq DOMAIN report.movement_type_accuracy
    /\ {"technical", "structural", "sentiment", "macro"}
          \subseteq DOMAIN report.factor_effectiveness
    /\ IsOne(report.factor_effectiveness["technical"])

(* C20: at every step t the window handed to the engine is the prices at
   indices max(0, t-47) .. t-1: 47 points once t >= 47, t points for
   24 <= t < 47, whatever the length of the series. *)
C20_WindowIsLookBack ==
    \A k \in 1..Len(step_log) :
        LET e == step_log[k]
        IN  /\ e.window.lo = Max(0, e.t - LookBack)
            /\ e.window.hi = e.t
            /\ SliceLen(e.window) = Min(e.t, LookBack)

----------------------------------------------------------------------------
(* C3: the classifier returns, for every percent change x, the one band of
   crash (x <= -15), dump (-15 < x <= -8), normal_down (-8 < x <= -3),
   stable (-3 < x < 3), normal_up (3 <= x < 8), pump (8 <= x < 15),
   surge (x >= 15) that contains x. *)
C3_ClassifierBands ==
    (arg.fn = "classify_movement" /\ ret.done) =>
        /\ ret.value \in MovementTypes
        /\ \A b \in MovementTypes : (ret.value = b) <=> InBand(b, arg.price_change)
        /\ Cardinality({ b \in MovementTypes : InBand(b, arg.price_change) }) = 1

C3_Witness ==
    /\ arg.fn = "classify_movement"
    /\ arg.price_change = Rat(-150, 10)
    /\ ret = Returned("crash")

(* C8: _evaluate_prediction_accuracy is true exactly when the signs of the
   two changes agree (zero agreeing only with zero) and the movement types
   are equal or the changes differ by at most 2.0. *)
Sign(q) == IF q.n > 0 THEN 1 ELSE IF q.n < 0 THEN -1 ELSE 0

C8_EvaluatorRule ==
    (arg.fn = "evaluate_prediction_accuracy" /\ ret.done) =>
        LET a == arg.actual_change
            p == arg.predicted_change
            diff == a.n * p.d - p.n * a.d
            within == diff <= 2 * a.d * p.d /\ -diff <= 2 * a.d * p.d
        IN  /\ ret.value \in BOOLEAN
            /\ ret.value <=> ( /\ Sign(a) = Sign(p)
                         /\ (arg.actual_movement = arg.predicted_movement \/ within) )
            /\ (a = Rat(10, 1) /\ p = Rat(9, 1) /\ arg.actual_movement = "pump"
                    /\ arg.predicted_movement = "pump") => ret.value = TRUE
            /\ (a = Rat(10, 1) /\ p = Rat(2, 1) /\ arg.actual_movement = "pump"
                    /\ arg.predicted_movement = "normal_up") => ret.value = FALSE

C8_Witness ==
    /\ arg.fn = "evaluate_prediction_accuracy"
    /\ arg.actual_change = Rat(10, 1) /\ arg.predicted_change = Rat(2, 1)
    /\ arg.actual_movement = "pump" /\ arg.predicted_movement = "normal_up"
    /\ ret = Returned(FALSE)

----------------------------------------------------------------------------
(* Claims about the two classifiers (SpecClassifiers) *)

(* C30: the engine's classifier and the validator's own classifier return
   the same movement type for every percent change, the boundary values
   -15, -8, -3, 3, 8 and 15 included. *)
BothClassified == DOMAIN ret = {"analyzer", "validator"}

C30_ClassifiersAgree ==
    BothClassified => ret["analyzer"] = ret["validator"]

C30_Witness ==
    /\ BothClassified
    /\ arg.price_change.n = 3 * arg.price_change.d
    /\ ret["analyzer"] = "normal_up" /\ ret["validator"] = "normal_up"

====
